---- MODULE Spec2Model ----
(***************************************************************************)
(* Streaming inference pipeline of sensevoice_streaming_api:               *)
(* DualQueueScheduler (two FIFO queues, batch formation), BatchProcessor   *)
(* (worker loops), BatchInferenceEngine (model call, result assembly),     *)
(* ResultDispatcher (result maps, task-store update).                      *)
(*                                                                         *)
(* The code runs on one asyncio event loop: a step of the model is the     *)
(* code a coroutine runs between two suspension points.  Time is           *)
(* abstracted: a timeout may expire at any moment.                         *)
(***************************************************************************)
EXTENDS Integers, Sequences, FiniteSets, TLC

\* ---------------------------------------------------------------- bounds
NumSegments == 4
SegsPerAudio == 2
batch_size == 2
max_queue_size == 3
MaxBatches == 2
\* add_segment_task calls explored: enough to fill the queues and be refused
MaxAdmits == max_queue_size + 1

\* callbacks registered with the dispatcher, both observer lists together
MaxObservers == 2

\* settings.streaming.max_concurrent_batches
max_concurrent_batches == 2

\* effective start() calls explored
MaxStarts == 2
\* worker tasks that can exist at once: those of two start() calls
MaxTasks == 2 * max_concurrent_batches

\* the clock runs from 0 to MaxTime
MaxTime == 2

\* ------------------------------------------------------------- segments
Segments == 0 .. (NumSegments - 1)
Workers == 1 .. max_concurrent_batches

parent_id(s) == s \div SegsPerAudio
index(s) == s % SegsPerAudio
is_first_segment(s) == index(s) = 0

\* the audio tasks of the task store and AudioTask.segments of each
Audios == {parent_id(s) : s \in Segments}
SegmentsOf(a) == {s \in Segments : parent_id(s) = a}

\* Python's None, and the text the model produces for the file of segment s
None == << >>
TextOf(s) == << s >>

VARIABLES
    first_segment_queue,      \* deque of segment ids (high priority)
    normal_segment_queue,     \* deque of segment ids
    status,                   \* SegmentTask.status of every segment
    scheduler_is_running,     \* DualQueueScheduler.is_running
    processor_is_running,     \* BatchProcessor.is_running
    batch_counter,            \* DualQueueScheduler.batch_counter
    total_batches_created,
    total_batches_completed,
    pc,                       \* position of every worker loop
    batch,                    \* batch_tasks held by a worker
    completed_results,        \* ResultDispatcher.completed_results
    first_segment_results,    \* ResultDispatcher.first_segment_results
    admit_calls,              \* number of add_segment_task calls made so far
    admit_ret,                \* what the last submission returned
    audio_status,             \* AudioTask.status of every audio in the task store
    first_segment_callbacks,  \* ResultDispatcher.first_segment_callbacks
    all_segment_callbacks,    \* ResultDispatcher.all_segment_callbacks
    dispatch,                 \* the dispatch_batch_results call under way
    calls,                    \* what that call has stored and invoked, in order
    ahead,                    \* history: pairs << a, b >> of first segments, b admitted
                              \* while a waited in the high queue
    start_time,               \* BatchProcessor.start_time: 0 is None, else the start it is from
    supervisor_ret,           \* which way the last start() or stop() call went
    clock,                    \* the time, and history: when each result was stored, the last cleanup's threshold
    queue_lock,               \* DualQueueScheduler.queue_lock: "free" or "held"
    progress_percent          \* AudioTask.progress_percent of each audio

vars == << first_segment_queue, normal_segment_queue, status,
           scheduler_is_running, processor_is_running, batch_counter,
           total_batches_created, total_batches_completed, pc, batch,
           completed_results, first_segment_results, admit_calls, admit_ret,
           audio_status, first_segment_callbacks, all_segment_callbacks,
           dispatch, calls, ahead,
           start_time, supervisor_ret, clock, queue_lock, progress_percent >>

\* what only the supervisor's start() and stop() write
supervisor_vars == << start_time, supervisor_ret >>

\* the observers and the coroutines of a dispatch call
observer_vars == << first_segment_callbacks, all_segment_callbacks, dispatch, calls >>

\* no dispatch call under way: its coroutines are at <<result, callback>>
NoDispatch ==
    [results |-> << >>, first |-> << 1, 0 >>, normal |-> << 1, 0 >>, returned |-> TRUE]

\* time 0, nothing stored, cleanup_old_results not called
NoClock == [now |-> 0, finished |-> [k \in {} |-> 0], max_age_seconds |-> 0]

\* a Python dict is a function whose domain is its key set
EmptyDict == [k \in {} |-> None]
\* a store that adds the text of a redelivered result to the text it holds
DictSet_accumulate(d, key, value) ==
    [k \in (DOMAIN d) \cup {key} |->
        IF k # key THEN d[k]
        ELSE IF key \in DOMAIN d
             THEN [value EXCEPT !.text = d[key].text \o @]
             ELSE value]

DictSet(d, key, value) ==
    [k \in (DOMAIN d) \cup {key} |-> IF k = key THEN value ELSE d[k]]

Init ==
    /\ first_segment_queue = << >>
    /\ normal_segment_queue = << >>
    /\ status = [s \in Segments |-> "CREATED"]
    /\ scheduler_is_running = FALSE
    /\ processor_is_running = FALSE
    /\ batch_counter = 0
    /\ total_batches_created = 0
    /\ total_batches_completed = 0
    /\ pc = [w \in Workers |-> "none"]
    /\ batch = [w \in Workers |-> << >>]
    /\ completed_results = EmptyDict
    /\ first_segment_results = EmptyDict
    /\ admit_calls = 0
    /\ admit_ret = "NONE"
    /\ audio_status = [a \in Audios |-> "READY"]
    /\ first_segment_callbacks = << >>
    /\ all_segment_callbacks = << >>
    /\ dispatch = NoDispatch
    /\ calls = << >>
    /\ ahead = {}
    /\ start_time = 0
    /\ supervisor_ret = "NONE"
    /\ clock = NoClock
    /\ queue_lock = "free"
    /\ progress_percent = [a \in Audios |-> 0]

\* ------------------------------------------------------------ scheduler
_get_total_queue_size == Len(first_segment_queue) + Len(normal_segment_queue)
_is_queues_empty == Len(first_segment_queue) = 0 /\ Len(normal_segment_queue) = 0

\* add_segment_task with the capacity test off by one (> for >=)
add_segment_task_off_by_one(s) ==
    IF _get_total_queue_size > max_queue_size
    THEN /\ admit_ret' = "REJECTED_FULL"
         /\ UNCHANGED << first_segment_queue, normal_segment_queue, status >>
    ELSE /\ IF is_first_segment(s)
            THEN /\ first_segment_queue' = Append(first_segment_queue, s)
                 /\ UNCHANGED normal_segment_queue
            ELSE /\ normal_segment_queue' = Append(normal_segment_queue, s)
                 /\ UNCHANGED first_segment_queue
         /\ status' = [status EXCEPT ![s] = "QUEUED"]
         /\ admit_ret' = "ACCEPTED"

\* add_segment_task with the status update moved before the capacity test
add_segment_task_marks_rejected(s) ==
    IF _get_total_queue_size >= max_queue_size
    THEN /\ admit_ret' = "REJECTED_FULL"
         /\ status' = [status EXCEPT ![s] = "QUEUED"]
         /\ UNCHANGED << first_segment_queue, normal_segment_queue >>
    ELSE /\ IF is_first_segment(s)
            THEN /\ first_segment_queue' = Append(first_segment_queue, s)
                 /\ UNCHANGED normal_segment_queue
            ELSE /\ normal_segment_queue' = Append(normal_segment_queue, s)
                 /\ UNCHANGED first_segment_queue
         /\ status' = [status EXCEPT ![s] = "QUEUED"]
         /\ admit_ret' = "ACCEPTED"

\* add_segment_task with the two queues exchanged
add_segment_task_swapped(s) ==
    IF _get_total_queue_size >= max_queue_size
    THEN /\ admit_ret' = "REJECTED_FULL"
         /\ UNCHANGED << first_segment_queue, normal_segment_queue, status >>
    ELSE /\ IF is_first_segment(s)
            THEN /\ normal_segment_queue' = Append(normal_segment_queue, s)
                 /\ UNCHANGED first_segment_queue
            ELSE /\ first_segment_queue' = Append(first_segment_queue, s)
                 /\ UNCHANGED normal_segment_queue
         /\ status' = [status EXCEPT ![s] = "QUEUED"]
         /\ admit_ret' = "ACCEPTED"

\* the queue update, status update and return value of add_segment_task
add_segment_task(s) ==
    /\ queue_lock = "free"
    /\ IF _get_total_queue_size >= max_queue_size
       THEN /\ admit_ret' = "REJECTED_FULL"
            /\ UNCHANGED << first_segment_queue, normal_segment_queue, status >>
       ELSE /\ IF is_first_segment(s)
               THEN /\ first_segment_queue' = Append(first_segment_queue, s)
                    /\ UNCHANGED normal_segment_queue
               ELSE /\ normal_segment_queue' = Append(normal_segment_queue, s)
                    /\ UNCHANGED first_segment_queue
            /\ status' = [status EXCEPT ![s] = "QUEUED"]
            /\ admit_ret' = "ACCEPTED"

\* BatchProcessor.add_segment_task without its is_running test
BatchProcessor_add_segment_task_unchecked(s) ==
    /\ admit_calls < MaxAdmits
    /\ admit_calls' = admit_calls + 1
    /\ add_segment_task(s)
    /\ UNCHANGED << scheduler_is_running, processor_is_running, batch_counter,
                    total_batches_created, total_batches_completed, pc, batch,
                    completed_results, first_segment_results, audio_status >>
    /\ UNCHANGED << observer_vars, supervisor_vars, clock, queue_lock, progress_percent >>

\* BatchProcessor.add_segment_task, the only caller of the scheduler's
\* add_segment_task: refuses while the processor is stopped
BatchProcessor_add_segment_task(s) ==
    /\ admit_calls < MaxAdmits
    /\ IF ~processor_is_running
       THEN /\ admit_ret' = "NOT_RUNNING"
            /\ UNCHANGED << first_segment_queue, normal_segment_queue, status,
                            admit_calls >>
       ELSE /\ admit_calls' = admit_calls + 1
            /\ add_segment_task(s)
    /\ UNCHANGED << scheduler_is_running, processor_is_running, batch_counter,
                    total_batches_created, total_batches_completed, pc, batch,
                    completed_results, first_segment_results, audio_status >>
    /\ UNCHANGED << observer_vars, supervisor_vars, clock, queue_lock, progress_percent >>

\* a submission in the pipeline
ProcessorAdmit(s) == BatchProcessor_add_segment_task(s) /\ UNCHANGED ahead

\* the while loop of _create_batch with its size test off by one (<= for <)
RECURSIVE Drain_off_by_one(_, _)
Drain_off_by_one(batch_tasks, queue) ==
    IF Len(batch_tasks) <= batch_size /\ Len(queue) > 0
    THEN Drain_off_by_one(Append(batch_tasks, Head(queue)), Tail(queue))
    ELSE << batch_tasks, queue >>

\* the while loop of _create_batch popping from the right (pop for popleft)
RECURSIVE Drain_pop_right(_, _)
Drain_pop_right(batch_tasks, queue) ==
    IF Len(batch_tasks) < batch_size /\ Len(queue) > 0
    THEN Drain_pop_right(Append(batch_tasks, queue[Len(queue)]),
                         SubSeq(queue, 1, Len(queue) - 1))
    ELSE << batch_tasks, queue >>

\* the while loop of _create_batch reading the queue without popping from it
RECURSIVE Drain_peek(_, _)
Drain_peek(batch_tasks, queue) ==
    IF Len(batch_tasks) < batch_size /\ Len(queue) > 0
    THEN << Drain_peek(Append(batch_tasks, Head(queue)), Tail(queue))[1], queue >>
    ELSE << batch_tasks, queue >>

\* one while loop of _create_batch: pop from the left of queue into
\* batch_tasks while the batch is not full and the queue is not empty;
\* yields << batch_tasks, rest of queue >>
RECURSIVE Drain(_, _)
Drain(batch_tasks, queue) ==
    IF Len(batch_tasks) < batch_size /\ Len(queue) > 0
    THEN Drain(Append(batch_tasks, Head(queue)), Tail(queue))
    ELSE << batch_tasks, queue >>

\* _create_batch with its two loops in the other order
_create_batch_normal_first ==
    LET normal == Drain(<< >>, normal_segment_queue)
        high == Drain(normal[1], first_segment_queue)
    IN  [batch_tasks |-> high[1], first_rest |-> high[2], normal_rest |-> normal[2]]

\* _create_batch: first segments first, then normal segments
_create_batch ==
    LET high == Drain(<< >>, first_segment_queue)
        normal == Drain(high[1], normal_segment_queue)
    IN  [batch_tasks |-> normal[1], first_rest |-> high[2], normal_rest |-> normal[2]]

InBatch(tasks) == {tasks[i] : i \in 1 .. Len(tasks)}

\* batch formation that keeps queue_lock after _create_batch has returned
FormBatch_keeps_lock(w) ==
    LET b == _create_batch IN
    /\ batch_counter < MaxBatches
    /\ queue_lock = "free"
    /\ queue_lock' = IF b.batch_tasks # << >> THEN "held" ELSE "free"
    /\ first_segment_queue' = b.first_rest
    /\ normal_segment_queue' = b.normal_rest
    /\ batch_counter' = batch_counter + 1
    /\ status' = [s \in Segments |->
                    IF s \in InBatch(b.batch_tasks) THEN "PROCESSING" ELSE status[s]]
    /\ batch' = [batch EXCEPT ![w] = b.batch_tasks]
    /\ total_batches_created' =
          IF b.batch_tasks # << >> THEN total_batches_created + 1
                                   ELSE total_batches_created
    /\ pc' = [pc EXCEPT ![w] = IF b.batch_tasks # << >> THEN "process" ELSE "wait"]

\* batch formation that does not advance batch_counter
FormBatch_same_counter(w) ==
    LET b == _create_batch IN
    /\ batch_counter < MaxBatches
    /\ queue_lock = "free"
    /\ queue_lock' = "free"
    /\ first_segment_queue' = b.first_rest
    /\ normal_segment_queue' = b.normal_rest
    /\ batch_counter' = batch_counter
    /\ status' = [s \in Segments |->
                    IF s \in InBatch(b.batch_tasks) THEN "PROCESSING" ELSE status[s]]
    /\ batch' = [batch EXCEPT ![w] = b.batch_tasks]
    /\ total_batches_created' =
          IF b.batch_tasks # << >> THEN total_batches_created + 1
                                   ELSE total_batches_created
    /\ pc' = [pc EXCEPT ![w] = IF b.batch_tasks # << >> THEN "process" ELSE "wait"]

\* get_next_batch from the moment _wait_for_tasks returned True: _create_batch
\* runs without a suspension point in between, and the batch goes to worker w
FormBatch(w) ==
    LET b == _create_batch IN
    /\ batch_counter < MaxBatches
    /\ queue_lock = "free"
    /\ queue_lock' = "free"
    /\ first_segment_queue' = b.first_rest
    /\ normal_segment_queue' = b.normal_rest
    /\ batch_counter' = batch_counter + 1
    /\ status' = [s \in Segments |->
                    IF s \in InBatch(b.batch_tasks) THEN "PROCESSING" ELSE status[s]]
    /\ batch' = [batch EXCEPT ![w] = b.batch_tasks]
    /\ total_batches_created' =
          IF b.batch_tasks # << >> THEN total_batches_created + 1
                                   ELSE total_batches_created
    /\ pc' = [pc EXCEPT ![w] = IF b.batch_tasks # << >> THEN "process" ELSE "wait"]

\* _wait_for_tasks that reports tasks only once a full batch is queued
wait_returns_full_batch == _get_total_queue_size >= batch_size

\* _wait_for_tasks returns (event or timeout) with `not _is_queues_empty()`
wait_returns_tasks == ~_is_queues_empty

\* _processing_loop at its while test, entering get_next_batch
LoopEnter(w) ==
    /\ pc[w] = "loop"
    /\ IF ~processor_is_running
       THEN \* the worker exits
            /\ pc' = [pc EXCEPT ![w] = "none"]
            /\ UNCHANGED << first_segment_queue, normal_segment_queue, status,
                            batch_counter, total_batches_created, batch,
                            queue_lock, progress_percent >>
       ELSE /\ scheduler_is_running
            /\ IF _get_total_queue_size >= batch_size
               THEN \* _wait_for_tasks does not suspend
                    FormBatch(w)
               ELSE /\ pc' = [pc EXCEPT ![w] = "wait"]
                    /\ UNCHANGED << first_segment_queue, normal_segment_queue, status,
                                    batch_counter, total_batches_created, batch,
                            queue_lock, progress_percent >>
    /\ UNCHANGED << scheduler_is_running, processor_is_running,
                    total_batches_completed, completed_results,
                    first_segment_results, admit_calls, admit_ret, audio_status >>
    /\ UNCHANGED << observer_vars, ahead, supervisor_vars, clock, progress_percent >>

\* get_next_batch that returns None as soon as _wait_for_tasks reports no task
WaitReturn_gives_up(w) ==
    /\ pc[w] = "wait"
    /\ IF wait_returns_tasks
       THEN FormBatch(w)
       ELSE /\ pc' = [pc EXCEPT ![w] = "loop"]
            /\ UNCHANGED << first_segment_queue, normal_segment_queue, status,
                            batch_counter, total_batches_created, batch,
                            queue_lock, progress_percent >>
    /\ UNCHANGED << scheduler_is_running, processor_is_running,
                    total_batches_completed, completed_results,
                    first_segment_results, admit_calls, admit_ret, audio_status >>
    /\ UNCHANGED << observer_vars, ahead, supervisor_vars, clock, progress_percent >>

\* a worker suspended in _wait_for_tasks resumes
WaitReturn(w) ==
    /\ pc[w] = "wait"
    /\ IF wait_returns_tasks
       THEN FormBatch(w)
       ELSE \* continue; get_next_batch returns None once the scheduler stopped
            /\ ~scheduler_is_running
            /\ pc' = [pc EXCEPT ![w] = "loop"]
            /\ UNCHANGED << first_segment_queue, normal_segment_queue, status,
                            batch_counter, total_batches_created, batch,
                            queue_lock, progress_percent >>
    /\ UNCHANGED << scheduler_is_running, processor_is_running,
                    total_batches_completed, completed_results,
                    first_segment_results, admit_calls, admit_ret, audio_status >>
    /\ UNCHANGED << observer_vars, ahead, supervisor_vars, clock, progress_percent >>

\* ------------------------------------------------------ inference engine
\* what the model runtime can do with the files of a batch: the service is
\* not ready, the call raises, or every file is found missing, transcribed
\* ("ok") or reported with success = False ("fail")
ItemOutcomes == {"ok", "fail", "missing"}
ModelOutcomes(tasks) ==
    {[call |-> c, items |-> << >>] : c \in {"not_ready", "raises"}}
    \cup {[call |-> "returns", items |-> f] :
            f \in {g \in [1 .. Len(tasks) -> ItemOutcomes] :
                     \A i, j \in 1 .. Len(tasks) :
                        tasks[i] = tasks[j] =>
                           ((g[i] = "missing") <=> (g[j] = "missing"))}}

\* positions of the batch whose file exists: valid_paths of _batch_transcribe
ValidPositions(out) ==
    SelectSeq([i \in 1 .. Len(out.items) |-> i], LAMBDA i : out.items[i] # "missing")

\* _batch_transcribe: None, or one result per valid path in order
_batch_transcribe(tasks, out) ==
    IF out.call = "not_ready" THEN None
    ELSE IF ValidPositions(out) = << >> THEN None
    ELSE IF out.call = "raises" THEN None
    ELSE [k \in 1 .. Len(ValidPositions(out)) |->
            LET i == ValidPositions(out)[k] IN
            [success |-> out.items[i] = "ok", text |-> TextOf(tasks[i])]]

\* _process_inference_results: zip(batch_tasks, inference_results), a
\* SegmentResult for every item with success, nothing for the others
RECURSIVE _process_inference_results(_, _)
_process_inference_results(tasks, results) ==
    IF tasks = << >> \/ results = << >> THEN << >>
    ELSE LET rest == _process_inference_results(Tail(tasks), Tail(results)) IN
         IF Head(results).success
         THEN << [segment_id |-> Head(tasks), text |-> Head(results).text] >> \o rest
         ELSE rest

\* process_batch: the BatchResult for the batch and the model's outcome
process_batch(tasks, out) ==
    LET batch_results == _batch_transcribe(tasks, out) IN
    IF batch_results # None /\ Len(batch_results) = Len(tasks)
    THEN [status |-> "COMPLETED",
          segment_results |-> _process_inference_results(tasks, batch_results),
          failed_segments |-> << >>,
          error_message |-> "NONE"]
    ELSE [status |-> "FAILED",
          segment_results |-> << >>,
          failed_segments |-> tasks,
          error_message |-> "MISMATCH"]

\* ------------------------------------------------------------ dispatcher
\* get_first_segments without its is_first_segment filter
get_first_segments_unfiltered(r) == r.segment_results

get_first_segments(r) ==
    SelectSeq(r.segment_results, LAMBDA x : is_first_segment(x.segment_id))
get_normal_segments(r) ==
    SelectSeq(r.segment_results, LAMBDA x : ~is_first_segment(x.segment_id))

\* completed_results after storing every result of results in order
RECURSIVE StoreCompleted(_, _)
StoreCompleted(d, results) ==
    IF results = << >> THEN d
    ELSE StoreCompleted(DictSet(d, Head(results).segment_id, Head(results)),
                        Tail(results))

\* first_segment_results after _dispatch_first_segments
RECURSIVE StoreFirst(_, _)
StoreFirst(d, results) ==
    IF results = << >> THEN d
    ELSE StoreFirst(DictSet(d, parent_id(Head(results).segment_id), Head(results)),
                    Tail(results))

\* get_first_segment_result: dict.get on first_segment_results
get_first_segment_result(audio_id) ==
    IF audio_id \in DOMAIN first_segment_results
    THEN first_segment_results[audio_id] ELSE None

\* the orders in which a dict with key set keys can be iterated: a dict
\* iterates in insertion order, and insertion order is the order of dispatch
RECURSIVE DictOrders(_)
DictOrders(keys) ==
    IF keys = {} THEN {<< >>}
    ELSE UNION {{<< k >> \o rest : rest \in DictOrders(keys \ {k})} : k \in keys}

\* list.sort left as it is
sort_by_segment_index_none(results) == results

\* results.sort(key=lambda x: x.segment_index): a stable sort
RECURSIVE sort_by_segment_index(_)
sort_by_segment_index(results) ==
    IF results = << >> THEN << >>
    ELSE LET sorted == sort_by_segment_index(SubSeq(results, 1, Len(results) - 1))
             last == results[Len(results)]
             before == SelectSeq(sorted, LAMBDA x : index(x.segment_id) <= index(last.segment_id))
             after == SelectSeq(sorted, LAMBDA x : index(x.segment_id) > index(last.segment_id))
         IN  before \o << last >> \o after

\* get_audio_segments_results when completed_results iterates in key_order
get_audio_segments_results(key_order, audio_id) ==
    LET values == [i \in 1 .. Len(key_order) |-> completed_results[key_order[i]]]
        results == SelectSeq(values, LAMBDA x : parent_id(x.segment_id) = audio_id)
    IN  sort_by_segment_index(results)

\* SegmentTask.set_result as the task store calls it
set_result(seg_status, s) == [seg_status EXCEPT ![s] = "COMPLETED"]

\* _check_audio_task_completion: the audio becomes COMPLETED when every one
\* of its segments is COMPLETED, and is left alone otherwise
_check_audio_task_completion(audio_st, seg_status, a) ==
    LET completed == Cardinality({s \in SegmentsOf(a) : seg_status[s] = "COMPLETED"})
        total == Cardinality(SegmentsOf(a))
    IN  IF completed = total THEN [audio_st EXCEPT ![a] = "COMPLETED"] ELSE audio_st

\* update_segment_result on the task store [segment, audio]: set_result,
\* then the roll-up of the parent audio
update_segment_result(store, s) ==
    LET seg_status == set_result(store.segment, s) IN
    [segment |-> seg_status,
     audio |-> _check_audio_task_completion(store.audio, seg_status, parent_id(s))]

\* _update_task_manager_results: update_segment_result for every result
RECURSIVE _update_task_manager_results(_, _)
_update_task_manager_results(store, results) ==
    IF results = << >> THEN store
    ELSE _update_task_manager_results(update_segment_result(store, Head(results).segment_id),
                                      Tail(results))

\* dispatch_batch_results for the BatchResult r.  No observer is registered,
\* so its coroutines touch the result maps and the task store only.
dispatch_batch_results(r) ==
    /\ first_segment_results' = StoreFirst(first_segment_results, get_first_segments(r))
    /\ completed_results' =
          StoreCompleted(StoreCompleted(completed_results, get_first_segments(r)),
                         get_normal_segments(r))
    /\ LET store == _update_task_manager_results(
                        [segment |-> status, audio |-> audio_status], r.segment_results)
       IN  /\ status' = store.segment
           /\ audio_status' = store.audio

\* a loop in which the failure of a batch escapes: the worker ends and the
\* batch is not marked completed
_process_single_batch_failure_escapes(w, r) ==
    /\ pc[w] = "process"
    /\ IF r.status = "FAILED"
       THEN /\ pc' = [pc EXCEPT ![w] = "none"]
            /\ UNCHANGED << total_batches_completed, completed_results,
                            first_segment_results, status, audio_status >>
       ELSE /\ dispatch_batch_results(r)
            /\ total_batches_completed' = total_batches_completed + 1
            /\ pc' = [pc EXCEPT ![w] = "loop"]
    /\ batch' = [batch EXCEPT ![w] = << >>]
    /\ UNCHANGED << first_segment_queue, normal_segment_queue,
                    scheduler_is_running, processor_is_running, batch_counter,
                    total_batches_created, admit_calls, admit_ret >>
    /\ UNCHANGED << observer_vars, ahead, supervisor_vars, clock, queue_lock, progress_percent >>

\* _process_single_batch of worker w when process_batch yields r, and the rest
\* of the loop body (mark_batch_completed): the model call has returned
_process_single_batch(w, r) ==
    /\ pc[w] = "process"
    /\ dispatch_batch_results(r)
    /\ total_batches_completed' = total_batches_completed + 1
    /\ pc' = [pc EXCEPT ![w] = "loop"]
    /\ batch' = [batch EXCEPT ![w] = << >>]
    /\ UNCHANGED << first_segment_queue, normal_segment_queue,
                    scheduler_is_running, processor_is_running, batch_counter,
                    total_batches_created, admit_calls, admit_ret >>
    /\ UNCHANGED << observer_vars, ahead, supervisor_vars, clock, queue_lock, progress_percent >>

\* the BatchResults the model's behaviours can produce for a batch
BatchResults(tasks) == {process_batch(tasks, out) : out \in ModelOutcomes(tasks)}

ProcessBatch(w) == \E r \in BatchResults(batch[w]) : _process_single_batch(w, r)

\* ------------------------------------------------------------ supervisor
\* BatchProcessor.start with DualQueueScheduler.start
Start ==
    /\ ~processor_is_running
    /\ \A w \in Workers : pc[w] = "none"
    /\ processor_is_running' = TRUE
    /\ scheduler_is_running' = TRUE
    /\ pc' = [w \in Workers |-> "loop"]
    /\ UNCHANGED << first_segment_queue, normal_segment_queue, status,
                    batch_counter, total_batches_created, total_batches_completed,
                    batch, completed_results, first_segment_results,
                    admit_calls, admit_ret, audio_status >>
    /\ UNCHANGED << observer_vars, ahead, supervisor_vars, clock, queue_lock, progress_percent >>

\* BatchProcessor.stop that leaves the scheduler running
Stop_scheduler_running ==
    /\ processor_is_running
    /\ processor_is_running' = FALSE
    /\ UNCHANGED << first_segment_queue, normal_segment_queue, status,
                    scheduler_is_running,
                    batch_counter, total_batches_created, total_batches_completed,
                    pc, batch, completed_results, first_segment_results,
                    admit_calls, admit_ret, audio_status >>
    /\ UNCHANGED << observer_vars, ahead, supervisor_vars, clock, queue_lock, progress_percent >>

\* BatchProcessor.stop with DualQueueScheduler.stop
Stop ==
    /\ processor_is_running
    /\ processor_is_running' = FALSE
    /\ scheduler_is_running' = FALSE
    /\ UNCHANGED << first_segment_queue, normal_segment_queue, status,
                    batch_counter, total_batches_created, total_batches_completed,
                    pc, batch, completed_results, first_segment_results,
                    admit_calls, admit_ret, audio_status >>
    /\ UNCHANGED << observer_vars, ahead, supervisor_vars, clock, queue_lock, progress_percent >>

Next ==
    \/ \E s \in Segments : ProcessorAdmit(s)
    \/ \E w \in Workers : LoopEnter(w)
    \/ \E w \in Workers : WaitReturn(w)
    \/ \E w \in Workers : ProcessBatch(w)
    \/ Start
    \/ Stop

Spec == Init /\ [][Next]_vars

\* ------------------------------------------- every segment submitted once
\* a submission of a segment that was not accepted before
OnceAdmit(s) ==
    /\ status[s] = "CREATED"
    /\ ProcessorAdmit(s)

OnceNext ==
    \/ \E s \in Segments : OnceAdmit(s)
    \/ \E w \in Workers : LoopEnter(w)
    \/ \E w \in Workers : WaitReturn(w)
    \/ \E w \in Workers : ProcessBatch(w)
    \/ Start
    \/ Stop

OnceSpec == Init /\ [][OnceNext]_vars

\* ------------------------------------------------- the pipeline kept running
\* a submission while few enough segments were submitted that every one of
\* them fits in the batches explored
LiveAdmit(s) ==
    /\ admit_calls < MaxBatches
    /\ ProcessorAdmit(s)

\* start() once and no stop(): the supervisor keeps running
LiveNext ==
    \/ \E s \in Segments : LiveAdmit(s)
    \/ \E w \in Workers : LoopEnter(w)
    \/ \E w \in Workers : WaitReturn(w)
    \/ \E w \in Workers : ProcessBatch(w)
    \/ Start

\* the event loop runs every ready worker, every wait in get_next_batch
\* times out, and every model call returns or raises
LiveSpec ==
    /\ Init
    /\ [][LiveNext]_vars
    /\ \A w \in Workers :
          WF_vars(LoopEnter(w)) /\ WF_vars(WaitReturn(w)) /\ WF_vars(ProcessBatch(w))

\* ------------------------------------------------ the pipeline being stopped
\* start() and stop() in turn, each start() after the stop() before it has
\* returned
StopNext ==
    \/ \E s \in Segments : LiveAdmit(s)
    \/ \E w \in Workers : LoopEnter(w)
    \/ \E w \in Workers : WaitReturn(w)
    \/ \E w \in Workers : ProcessBatch(w)
    \/ Start
    \/ Stop

\* the event loop runs every ready worker, every wait in get_next_batch
\* ends, and every model call returns or raises
StopSpec ==
    /\ Init
    /\ [][StopNext]_vars
    /\ \A w \in Workers :
          WF_vars(LoopEnter(w)) /\ WF_vars(WaitReturn(w)) /\ WF_vars(ProcessBatch(w))

\* SegmentTask.set_error
set_error(seg_status, s) == [seg_status EXCEPT ![s] = "FAILED"]

\* --------------------------------------------- the task store on its own
\* TaskManager driven by its callers: the audios were submitted, every
\* segment waits in a queue or is in a batch
StoreInit ==
    /\ first_segment_queue = << >>
    /\ normal_segment_queue = << >>
    /\ status \in [Segments -> {"QUEUED", "PROCESSING"}]
    /\ scheduler_is_running = FALSE
    /\ processor_is_running = FALSE
    /\ batch_counter = 0
    /\ total_batches_created = 0
    /\ total_batches_completed = 0
    /\ pc = [w \in Workers |-> "none"]
    /\ batch = [w \in Workers |-> << >>]
    /\ completed_results = EmptyDict
    /\ first_segment_results = EmptyDict
    /\ admit_calls = 0
    /\ admit_ret = "NONE"
    /\ audio_status = [a \in Audios |-> "PROCESSING"]
    /\ first_segment_callbacks = << >>
    /\ all_segment_callbacks = << >>
    /\ dispatch = NoDispatch
    /\ calls = << >>
    /\ ahead = {}
    /\ start_time = 0
    /\ supervisor_ret = "NONE"
    /\ clock = NoClock
    /\ queue_lock = "free"
    /\ progress_percent = [a \in Audios |-> 0]

\* what the task store does not own
store_frame ==
    << first_segment_queue, normal_segment_queue, scheduler_is_running,
       processor_is_running, batch_counter, total_batches_created,
       total_batches_completed, pc, batch, completed_results,
       first_segment_results, admit_calls, admit_ret, first_segment_callbacks,
       all_segment_callbacks, dispatch, calls, ahead, supervisor_vars,
       clock, queue_lock, progress_percent >>

\* update_segment_result(s) for a segment that is being processed
StoreUpdate(s) ==
    /\ status[s] = "PROCESSING"
    /\ LET store == update_segment_result([segment |-> status, audio |-> audio_status], s)
       IN  /\ status' = store.segment
           /\ audio_status' = store.audio
    /\ UNCHANGED store_frame

\* set_error on a segment that is being processed
StoreSetError(s) ==
    /\ status[s] = "PROCESSING"
    /\ status' = set_error(status, s)
    /\ UNCHANGED audio_status
    /\ UNCHANGED store_frame

StoreNext ==
    \/ \E s \in Segments : StoreUpdate(s)
    \/ \E s \in Segments : StoreSetError(s)

StoreSpec == StoreInit /\ [][StoreNext]_vars

\* ----------------------------------------- the dispatcher with observers
\* what a registered callback does when it is called: return, raise, or (a
\* coroutine function) suspend before it returns
ObserverKinds == {"sync", "raises", "async"}

\* _call_*_callbacks with the try around the whole loop
RECURSIVE _call_callbacks_uncaught(_, _)
_call_callbacks_uncaught(callbacks, j) ==
    IF j > Len(callbacks) THEN [invoked |-> << >>, suspended |-> 0]
    ELSE IF callbacks[j] = "async" THEN [invoked |-> << j >>, suspended |-> j]
    ELSE IF callbacks[j] = "raises" THEN [invoked |-> << j >>, suspended |-> 0]
    ELSE LET rest == _call_callbacks_uncaught(callbacks, j + 1) IN
         [invoked |-> << j >> \o rest.invoked, suspended |-> rest.suspended]

\* _call_first_segment_callbacks / _call_all_segment_callbacks from callback
\* j on, up to the first suspension: the callbacks invoked and the one the
\* coroutine is suspended in (0: none); an exception is caught per callback
RECURSIVE _call_callbacks(_, _)
_call_callbacks(callbacks, j) ==
    IF j > Len(callbacks) THEN [invoked |-> << >>, suspended |-> 0]
    ELSE IF callbacks[j] = "async" THEN [invoked |-> << j >>, suspended |-> j]
    ELSE LET rest == _call_callbacks(callbacks, j + 1) IN
         [invoked |-> << j >> \o rest.invoked, suspended |-> rest.suspended]

\* the writes of _dispatch_first_segments ("on_first") or
\* _dispatch_normal_segments ("on_any") for one result
StoreResult(op, acc, result) ==
    [acc EXCEPT
       !.completed = DictSet(@, result.segment_id, result),
       !.first = IF op = "on_first"
                 THEN DictSet(@, parent_id(result.segment_id), result) ELSE @,
       !.calls = Append(@, [op |-> "store", observer |-> 0,
                            segment_id |-> result.segment_id])]

\* the loop of _dispatch_first_segments / _dispatch_normal_segments, result i
\* stored, about to call callback j, run up to its next suspension
RECURSIVE _dispatch_segments(_, _, _, _, _, _)
_dispatch_segments(op, results, callbacks, i, j, acc) ==
    LET c == _call_callbacks(callbacks, j)
        events == [k \in 1 .. Len(c.invoked) |->
                     [op |-> op, observer |-> c.invoked[k],
                      segment_id |-> results[i].segment_id]]
        acc1 == [acc EXCEPT !.calls = @ \o events]
    IN  IF c.suspended # 0 THEN [acc1 EXCEPT !.pos = << i, c.suspended >>]
        ELSE IF i = Len(results) THEN [acc1 EXCEPT !.pos = << i + 1, 0 >>]
        ELSE _dispatch_segments(op, results, callbacks, i + 1, 1,
                                StoreResult(op, acc1, results[i + 1]))

\* the coroutine from its start
_dispatch_segments_start(op, results, callbacks, acc) ==
    IF results = << >> THEN [acc EXCEPT !.pos = << 1, 0 >>]
    ELSE _dispatch_segments(op, results, callbacks, 1, 1,
                            StoreResult(op, acc, results[1]))

Accumulator(log) ==
    [completed |-> completed_results, first |-> first_segment_results,
     calls |-> log, pos |-> << 0, 0 >>]

CoroutineDone(pos, results) == pos[1] > Len(results)
FirstsOf(d) == get_first_segments([segment_results |-> d.results])
NormalsOf(d) == get_normal_segments([segment_results |-> d.results])

\* the batches _create_batch can hand out: different segments, first
\* segments before normal ones
RECURSIVE Batches(_)
Batches(n) ==
    IF n = 0 THEN {<< >>}
    ELSE LET shorter == Batches(n - 1) IN
         shorter \cup
         {Append(b, s) : b \in {x \in shorter : Len(x) = n - 1},
                         s \in Segments} 

WellFormedBatch(b) ==
    /\ b # << >>
    /\ \A i, j \in 1 .. Len(b) : b[i] = b[j] => i = j
    /\ \A i, j \in 1 .. Len(b) :
          (i < j /\ is_first_segment(b[j])) => is_first_segment(b[i])

DispatchInputs ==
    UNION {BatchResults(b) : b \in {x \in Batches(batch_size) : WellFormedBatch(x)}}

\* what the dispatcher does not touch
dispatch_frame ==
    << first_segment_queue, normal_segment_queue, scheduler_is_running,
       processor_is_running, batch_counter, total_batches_created, pc, batch,
       admit_calls, admit_ret, ahead, supervisor_vars, clock, queue_lock, progress_percent >>

\* register_first_segment_callback / register_all_segment_callback, before
\* the pipeline runs
RegisterFirst(kind) ==
    /\ dispatch.returned /\ total_batches_completed = 0
    /\ Len(first_segment_callbacks) + Len(all_segment_callbacks) < MaxObservers
    /\ first_segment_callbacks' = Append(first_segment_callbacks, kind)
    /\ UNCHANGED << all_segment_callbacks, dispatch, calls, completed_results,
                    first_segment_results, status, audio_status,
                    total_batches_completed >>
    /\ UNCHANGED dispatch_frame

RegisterAny(kind) ==
    /\ dispatch.returned /\ total_batches_completed = 0
    /\ Len(first_segment_callbacks) + Len(all_segment_callbacks) < MaxObservers
    /\ all_segment_callbacks' = Append(all_segment_callbacks, kind)
    /\ UNCHANGED << first_segment_callbacks, dispatch, calls, completed_results,
                    first_segment_results, status, audio_status,
                    total_batches_completed >>
    /\ UNCHANGED dispatch_frame

\* the dispatcher on its own: every segment is in a batch being processed
DispatchInit ==
    /\ first_segment_queue = << >>
    /\ normal_segment_queue = << >>
    /\ status = [s \in Segments |-> "PROCESSING"]
    /\ scheduler_is_running = FALSE
    /\ processor_is_running = FALSE
    /\ batch_counter = 0
    /\ total_batches_created = 0
    /\ total_batches_completed = 0
    /\ pc = [w \in Workers |-> "none"]
    /\ batch = [w \in Workers |-> << >>]
    /\ completed_results = EmptyDict
    /\ first_segment_results = EmptyDict
    /\ admit_calls = 0
    /\ admit_ret = "NONE"
    /\ audio_status = [a \in Audios |-> "PROCESSING"]
    /\ first_segment_callbacks = << >>
    /\ all_segment_callbacks = << >>
    /\ dispatch = NoDispatch
    /\ calls = << >>
    /\ ahead = {}
    /\ start_time = 0
    /\ supervisor_ret = "NONE"
    /\ clock = NoClock
    /\ queue_lock = "free"
    /\ progress_percent = [a \in Audios |-> 0]

ApplyAccumulator(acc) ==
    /\ completed_results' = acc.completed
    /\ first_segment_results' = acc.first
    /\ calls' = acc.calls

\* dispatch_batch_results(r) up to its gather: the two coroutines become
\* tasks, and the first-segment one, created first, runs first; r comes from
\* a batch in flight, whose segments _create_batch left PROCESSING
DispatchCall(r) ==
    /\ dispatch.returned /\ total_batches_completed < MaxBatches
    /\ \A i \in 1 .. Len(r.segment_results) :
          status[r.segment_results[i].segment_id] = "PROCESSING"
    /\ LET acc == _dispatch_segments_start("on_first", get_first_segments(r),
                                           first_segment_callbacks, Accumulator(<< >>))
       IN  /\ ApplyAccumulator(acc)
           /\ dispatch' = [results |-> r.segment_results, first |-> acc.pos,
                           normal |-> << 0, 0 >>, returned |-> FALSE]
    /\ UNCHANGED << first_segment_callbacks, all_segment_callbacks, status,
                    audio_status, total_batches_completed >>
    /\ UNCHANGED dispatch_frame

\* the task of _dispatch_normal_segments gets its first turn
DispatchNormalStart ==
    /\ ~dispatch.returned /\ dispatch.normal = << 0, 0 >>
    /\ LET acc == _dispatch_segments_start("on_any", NormalsOf(dispatch),
                                           all_segment_callbacks, Accumulator(calls))
       IN  /\ ApplyAccumulator(acc)
           /\ dispatch' = [dispatch EXCEPT !.normal = acc.pos]
    /\ UNCHANGED << first_segment_callbacks, all_segment_callbacks, status,
                    audio_status, total_batches_completed >>
    /\ UNCHANGED dispatch_frame

\* the callback _dispatch_first_segments awaits completes; this comes after
\* the first turn of the other task, which was scheduled before it
DispatchFirstResume ==
    /\ ~dispatch.returned /\ dispatch.normal # << 0, 0 >>
    /\ ~CoroutineDone(dispatch.first, FirstsOf(dispatch))
    /\ LET acc == _dispatch_segments("on_first", FirstsOf(dispatch),
                                     first_segment_callbacks, dispatch.first[1],
                                     dispatch.first[2] + 1, Accumulator(calls))
       IN  /\ ApplyAccumulator(acc)
           /\ dispatch' = [dispatch EXCEPT !.first = acc.pos]
    /\ UNCHANGED << first_segment_callbacks, all_segment_callbacks, status,
                    audio_status, total_batches_completed >>
    /\ UNCHANGED dispatch_frame

\* the callback _dispatch_normal_segments awaits completes
DispatchNormalResume ==
    /\ ~dispatch.returned /\ dispatch.normal # << 0, 0 >>
    /\ ~CoroutineDone(dispatch.normal, NormalsOf(dispatch))
    /\ LET acc == _dispatch_segments("on_any", NormalsOf(dispatch),
                                     all_segment_callbacks, dispatch.normal[1],
                                     dispatch.normal[2] + 1, Accumulator(calls))
       IN  /\ ApplyAccumulator(acc)
           /\ dispatch' = [dispatch EXCEPT !.normal = acc.pos]
    /\ UNCHANGED << first_segment_callbacks, all_segment_callbacks, status,
                    audio_status, total_batches_completed >>
    /\ UNCHANGED dispatch_frame

\* gather is done: _update_task_manager_results, the call returns and the
\* worker counts the batch
DispatchReturn ==
    /\ ~dispatch.returned
    /\ CoroutineDone(dispatch.first, FirstsOf(dispatch))
    /\ CoroutineDone(dispatch.normal, NormalsOf(dispatch))
    /\ LET store == _update_task_manager_results(
                        [segment |-> status, audio |-> audio_status], dispatch.results)
       IN  /\ status' = store.segment
           /\ audio_status' = store.audio
    /\ dispatch' = [dispatch EXCEPT !.returned = TRUE]
    /\ total_batches_completed' = total_batches_completed + 1
    /\ UNCHANGED << first_segment_callbacks, all_segment_callbacks, calls,
                    completed_results, first_segment_results >>
    /\ UNCHANGED dispatch_frame

DispatchNext ==
    \/ \E kind \in ObserverKinds : RegisterFirst(kind)
    \/ \E kind \in ObserverKinds : RegisterAny(kind)
    \/ \E r \in DispatchInputs : DispatchCall(r)
    \/ DispatchNormalStart
    \/ DispatchFirstResume
    \/ DispatchNormalResume
    \/ DispatchReturn

\* a step of the dispatch call in progress
DispatchStep ==
    \/ DispatchNormalStart
    \/ DispatchFirstResume
    \/ DispatchNormalResume
    \/ DispatchReturn

\* the event loop keeps running: while the call has a ready task or an
\* awaited callback, one of them takes its step
DispatchSpec ==
    /\ DispatchInit
    /\ [][DispatchNext]_vars
    /\ WF_vars(DispatchStep)

\* ------------------------------------------- admission order of first segments
\* the segments waiting in the high queue
Waiting == {first_segment_queue[i] : i \in 1 .. Len(first_segment_queue)}

\* a submission, with its place in the admission order recorded: a first
\* segment s accepted for the first time comes behind every first segment
\* that waits in the high queue (the queue has not been empty since that one
\* was admitted); a segment admitted again has no place in the order
OrderAdmit(s) ==
    /\ BatchProcessor_add_segment_task(s)
    /\ ahead' = IF admit_ret' # "ACCEPTED" \/ ~is_first_segment(s) THEN ahead
                ELSE IF status[s] = "CREATED"
                THEN ahead \cup {<< a, s >> : a \in Waiting}
                ELSE {p \in ahead : p[1] # s /\ p[2] # s}

OrderNext ==
    \/ \E s \in Segments : OrderAdmit(s)
    \/ \E w \in Workers : LoopEnter(w)
    \/ \E w \in Workers : WaitReturn(w)
    \/ \E w \in Workers : ProcessBatch(w)
    \/ Start
    \/ Stop

\* the pipeline with the admission order of first segments as history
OrderSpec == Init /\ [][OrderNext]_vars

\* ------------------------------------------------- the supervisor in full
\* BatchProcessor with its start time and every worker task it has created:
\* start() and stop() can be called in any state, also while an earlier
\* stop() still waits in its gather for the worker loops to exit
Tasks == 1 .. MaxTasks

SupervisorInit ==
    /\ first_segment_queue = << >>
    /\ normal_segment_queue = << >>
    /\ status = [s \in Segments |-> "CREATED"]
    /\ scheduler_is_running = FALSE
    /\ processor_is_running = FALSE
    /\ batch_counter = 0
    /\ total_batches_created = 0
    /\ total_batches_completed = 0
    /\ pc = [w \in Tasks |-> "none"]
    /\ batch = [w \in Tasks |-> << >>]
    /\ completed_results = EmptyDict
    /\ first_segment_results = EmptyDict
    /\ admit_calls = 0
    /\ admit_ret = "NONE"
    /\ audio_status = [a \in Audios |-> "READY"]
    /\ first_segment_callbacks = << >>
    /\ all_segment_callbacks = << >>
    /\ dispatch = NoDispatch
    /\ calls = << >>
    /\ ahead = {}
    /\ start_time = 0
    /\ supervisor_ret = "NONE"
    /\ clock = NoClock
    /\ queue_lock = "free"
    /\ progress_percent = [a \in Audios |-> 0]

\* the worker loops that have not exited
Alive == {w \in DOMAIN pc : pc[w] # "none"}

\* the tasks the next start() creates: max_concurrent_batches new ones
NewTasks ==
    {w \in DOMAIN pc :
        /\ pc[w] = "none"
        /\ Cardinality({v \in DOMAIN pc : v < w /\ pc[v] = "none"})
              < max_concurrent_batches}

\* what start() and stop() read and write
SupervisorState ==
    [is_running |-> processor_is_running,
     scheduler_is_running |-> scheduler_is_running,
     pc |-> pc,
     start_time |-> start_time]

\* BatchProcessor.start without its is_running test
BatchProcessor_start_unguarded ==
    [ret |-> "STARTED",
     state |-> [is_running |-> TRUE,
                scheduler_is_running |-> TRUE,
                pc |-> [w \in DOMAIN pc |-> IF w \in NewTasks THEN "loop" ELSE pc[w]],
                start_time |-> start_time + 1]]

\* BatchProcessor.start that does not start the scheduler again
BatchProcessor_start_scheduler_stopped ==
    IF processor_is_running
    THEN [ret |-> "ALREADY_RUNNING", state |-> SupervisorState]
    ELSE [ret |-> "STARTED",
          state |-> [is_running |-> TRUE,
                     scheduler_is_running |-> scheduler_is_running,
                     pc |-> [w \in DOMAIN pc |->
                               IF w \in NewTasks THEN "loop" ELSE pc[w]],
                     start_time |-> start_time + 1]]

\* BatchProcessor.start with DualQueueScheduler.start: the way it goes and
\* the state it leaves; a new start time is later than every earlier one
BatchProcessor_start ==
    IF processor_is_running
    THEN [ret |-> "ALREADY_RUNNING", state |-> SupervisorState]
    ELSE [ret |-> "STARTED",
          state |-> [is_running |-> TRUE,
                     scheduler_is_running |-> TRUE,
                     pc |-> [w \in DOMAIN pc |->
                               IF w \in NewTasks THEN "loop" ELSE pc[w]],
                     start_time |-> start_time + 1]]

\* BatchProcessor.stop with DualQueueScheduler.stop, up to its gather
BatchProcessor_stop ==
    IF ~processor_is_running
    THEN [ret |-> "ALREADY_STOPPED", state |-> SupervisorState]
    ELSE [ret |-> "STOPPED",
          state |-> [is_running |-> FALSE,
                     scheduler_is_running |-> FALSE,
                     pc |-> pc,
                     start_time |-> start_time]]

\* a start() or stop() call that goes as call says
SupervisorCall(call) ==
    /\ processor_is_running' = call.state.is_running
    /\ scheduler_is_running' = call.state.scheduler_is_running
    /\ pc' = call.state.pc
    /\ start_time' = call.state.start_time
    /\ supervisor_ret' = call.ret
    /\ UNCHANGED << first_segment_queue, normal_segment_queue, status,
                    batch_counter, total_batches_created, total_batches_completed,
                    batch, completed_results, first_segment_results,
                    admit_calls, admit_ret, audio_status >>
    /\ UNCHANGED << observer_vars, ahead, clock, queue_lock, progress_percent >>

SupervisorStart ==
    /\ \/ processor_is_running
       \/ /\ start_time < MaxStarts
          /\ Cardinality(NewTasks) = max_concurrent_batches
    /\ SupervisorCall(BatchProcessor_start)

SupervisorStop == SupervisorCall(BatchProcessor_stop)

\* submissions of the segments of one audio, a first segment and the rest
SupervisorAdmit(s) ==
    /\ s \in SegmentsOf(0)
    /\ LiveAdmit(s)

SupervisorNext ==
    \/ \E s \in Segments : SupervisorAdmit(s)
    \/ \E w \in Tasks : LoopEnter(w)
    \/ \E w \in Tasks : WaitReturn(w)
    \/ \E w \in Tasks : ProcessBatch(w)
    \/ SupervisorStart
    \/ SupervisorStop

\* the event loop runs every ready worker, every wait in get_next_batch
\* times out, and every model call returns or raises
SupervisorSpec ==
    /\ SupervisorInit
    /\ [][SupervisorNext]_vars
    /\ \A w \in Tasks :
          WF_vars(LoopEnter(w)) /\ WF_vars(WaitReturn(w)) /\ WF_vars(ProcessBatch(w))

\* ================================================================ claims
Min(a, b) == IF a < b THEN a ELSE b
\* a step in which add_segment_task was called
AdmitCalled == admit_calls' = admit_calls + 1
\* a step in which a worker formed a batch
BatchFormed(w) == pc[w] # "process" /\ pc'[w] = "process"
InFlight(w) == pc[w] = "process"

\* C1: in every reachable state the two queues together hold at most
\* max_queue_size segments.
C1_QueueBounded ==
    Len(first_segment_queue) + Len(normal_segment_queue) <= max_queue_size

\* the queues are full although batches were drained in between
C1_Witness ==
    /\ Len(first_segment_queue) + Len(normal_segment_queue) = max_queue_size
    /\ batch_counter > 0
    /\ admit_ret = "ACCEPTED"

\* C2: add_segment_task called at capacity returns the rejection value and
\* leaves both queues and every status unchanged; with no batch drained, the
\* k-th call is accepted iff k <= max_queue_size.
C2_RejectedAtCapacity ==
    [][/\ (AdmitCalled /\ _get_total_queue_size = max_queue_size) =>
             /\ admit_ret' = "REJECTED_FULL"
             /\ first_segment_queue' = first_segment_queue
             /\ normal_segment_queue' = normal_segment_queue
             /\ status' = status
       /\ (AdmitCalled /\ batch_counter = 0) =>
             admit_ret' = IF admit_calls < max_queue_size THEN "ACCEPTED"
                                                          ELSE "REJECTED_FULL"
      ]_vars

\* max_queue_size + 1 calls, no batch drained: the last one was refused
C2_Witness ==
    /\ admit_calls = max_queue_size + 1
    /\ batch_counter = 0
    /\ admit_ret = "REJECTED_FULL"
    /\ Len(first_segment_queue) + Len(normal_segment_queue) = max_queue_size

\* C3: an accepted add_segment_task appends its segment to the tail of the
\* high queue iff the segment's index is 0, else to the tail of the normal
\* queue, sets that segment's status to QUEUED and changes nothing else of
\* the queues and statuses.
C3_AcceptedAdmit ==
    [][(AdmitCalled /\ admit_ret' = "ACCEPTED") =>
          \E s \in Segments :
             /\ status' = [status EXCEPT ![s] = "QUEUED"]
             /\ \/ /\ index(s) = 0
                   /\ first_segment_queue' = Append(first_segment_queue, s)
                   /\ normal_segment_queue' = normal_segment_queue
                \/ /\ index(s) # 0
                   /\ normal_segment_queue' = Append(normal_segment_queue, s)
                   /\ first_segment_queue' = first_segment_queue
      ]_vars

\* both kinds of segment have been accepted and wait in their queues
C3_Witness ==
    /\ admit_ret = "ACCEPTED"
    /\ Len(first_segment_queue) > 0
    /\ Len(normal_segment_queue) > 0
    /\ \A i \in 1 .. Len(first_segment_queue) :
          index(first_segment_queue[i]) = 0 /\ status[first_segment_queue[i]] = "QUEUED"
    /\ \A i \in 1 .. Len(normal_segment_queue) :
          index(normal_segment_queue[i]) # 0 /\ status[normal_segment_queue[i]] = "QUEUED"

\* C4: a batch formed from queues (Qh, Qn) is the first min(B, |Qh|) elements
\* of Qh followed by the first min(B - h, |Qn|) elements of Qn, both in queue
\* order, and exactly these leave the queues; a normal segment is taken only
\* when the high queue is left empty.
C4_PriorityBatch ==
    [][\A w \in Workers : BatchFormed(w) =>
          LET h == Min(batch_size, Len(first_segment_queue))
              n == Min(batch_size - h, Len(normal_segment_queue))
          IN  /\ batch'[w] = SubSeq(first_segment_queue, 1, h)
                                \o SubSeq(normal_segment_queue, 1, n)
              /\ first_segment_queue' =
                    SubSeq(first_segment_queue, h + 1, Len(first_segment_queue))
              /\ normal_segment_queue' =
                    SubSeq(normal_segment_queue, n + 1, Len(normal_segment_queue))
              /\ (n > 0 => first_segment_queue' = << >>)
      ]_vars

\* a full batch holds a first segment followed by a normal segment while
\* another normal segment is left waiting in the normal queue
C4_Witness ==
    \E w \in Workers :
       /\ InFlight(w)
       /\ Len(batch[w]) = batch_size
       /\ index(batch[w][1]) = 0
       /\ index(batch[w][Len(batch[w])]) # 0
       /\ Len(normal_segment_queue) > 0
       /\ first_segment_queue = << >>

\* C5: every batch a worker holds has at least 1 and at most batch_size
\* segments.
C5_BatchSize ==
    \A w \in Workers :
       InFlight(w) => (Len(batch[w]) >= 1 /\ Len(batch[w]) <= batch_size)

\* two workers hold batches at once, a full one and a partial one
C5_Witness ==
    \E w1, w2 \in Workers :
       /\ w1 # w2
       /\ InFlight(w1) /\ InFlight(w2)
       /\ Len(batch[w1]) = batch_size
       /\ Len(batch[w2]) < batch_size

\* number of positions of seq that hold segment s
Occurrences(seq, s) == Cardinality({i \in 1 .. Len(seq) : seq[i] = s})

\* number of positions of in-flight batches of workers 1 .. w that hold s
RECURSIVE InFlightOccurrences(_, _)
InFlightOccurrences(w, s) ==
    IF w = 0 THEN 0
    ELSE InFlightOccurrences(w - 1, s)
         + (IF InFlight(w) THEN Occurrences(batch[w], s) ELSE 0)

NoDuplicates(seq) == \A i, j \in 1 .. Len(seq) : seq[i] = seq[j] => i = j

\* C6: every segment is in at most one of the high queue, the normal queue,
\* an in-flight batch and the dispatcher's results map, and in that one at
\* most once, whatever admits (repeated ones included) and batch formations
\* have happened.
C6_AtMostOnePlace ==
    \A s \in Segments :
       Occurrences(first_segment_queue, s)
       + Occurrences(normal_segment_queue, s)
       + InFlightOccurrences(max_concurrent_batches, s)
       + (IF s \in DOMAIN completed_results THEN 1 ELSE 0) <= 1

ForwardTransitions ==
    { << "CREATED", "QUEUED" >>, << "QUEUED", "PROCESSING" >>,
      << "PROCESSING", "COMPLETED" >>, << "PROCESSING", "FAILED" >> }

\* C7: a segment's status changes only along CREATED -> QUEUED ->
\* PROCESSING -> (COMPLETED | FAILED); no step moves it backwards and a
\* COMPLETED or FAILED segment never changes again.
C7_StatusForward ==
    [][\A s \in Segments :
          status'[s] # status[s] => << status[s], status'[s] >> \in ForwardTransitions
      ]_vars

\* the step is worker w's _process_single_batch for the model behaviour out
ProcessedWith(w, out) ==
    /\ InFlight(w)
    /\ out \in ModelOutcomes(batch[w])
    /\ _process_single_batch(w, process_batch(batch[w], out))

\* the model answered for every file, success = False for exactly one
OneItemFails(out) ==
    /\ out.call = "returns"
    /\ \A i \in 1 .. Len(out.items) : out.items[i] \in {"ok", "fail"}
    /\ Cardinality({i \in 1 .. Len(out.items) : out.items[i] = "fail"}) = 1
    /\ Len(out.items) > 1

\* C8: when the model returns success = False for one item of a batch and
\* success for the others, after dispatch exactly that segment is FAILED and
\* every sibling of the batch is COMPLETED with its text in the results map.
C8_PartialFailure ==
    [][\A w \in Workers : \A out \in ModelOutcomes(batch[w]) :
          (NoDuplicates(batch[w]) /\ OneItemFails(out) /\ ProcessedWith(w, out)) =>
             \A i \in 1 .. Len(batch[w]) :
                LET s == batch[w][i] IN
                IF out.items[i] = "ok"
                THEN /\ status'[s] = "COMPLETED"
                     /\ s \in DOMAIN completed_results'
                     /\ completed_results'[s].text = TextOf(s)
                ELSE status'[s] = "FAILED"
      ]_vars

\* the model call raises, or the list it returns is not as long as the batch
TotalFailure(tasks, out) ==
    \/ out.call = "raises"
    \/ /\ out.call = "returns"
       /\ Len(ValidPositions(out)) # Len(tasks)

\* C9: when the model call raises or returns a list whose length differs from
\* the batch, the batch is recorded FAILED and every segment of the batch
\* becomes FAILED; none of them remains PROCESSING.
C9_TotalFailure ==
    [][\A w \in Workers : \A out \in ModelOutcomes(batch[w]) :
          (TotalFailure(batch[w], out) /\ ProcessedWith(w, out)) =>
             /\ process_batch(batch[w], out).status = "FAILED"
             /\ \A i \in 1 .. Len(batch[w]) : status'[batch[w][i]] = "FAILED"
      ]_vars

\* every file of the batch but one is on disk and is transcribed
OneFileMissing(out) ==
    /\ out.call = "returns"
    /\ \A i \in 1 .. Len(out.items) : out.items[i] \in {"ok", "missing"}
    /\ Cardinality({i \in 1 .. Len(out.items) : out.items[i] = "missing"}) = 1
    /\ Len(out.items) > 1

\* C10: a missing file yields a per-item failure at its position (the model
\* output is as long as the batch), so only that segment fails and the other
\* segments of the batch are completed.
C10_MissingFile ==
    [][\A w \in Workers : \A out \in ModelOutcomes(batch[w]) :
          (NoDuplicates(batch[w]) /\ OneFileMissing(out) /\ ProcessedWith(w, out)) =>
             /\ _batch_transcribe(batch[w], out) # None
             /\ Len(_batch_transcribe(batch[w], out)) = Len(batch[w])
             /\ \A i \in 1 .. Len(batch[w]) :
                   status'[batch[w][i]] =
                      IF out.items[i] = "ok" THEN "COMPLETED" ELSE "FAILED"
      ]_vars

\* C11: while the supervisor keeps running, under fair scheduling of the
\* workers and a model call that always returns or raises, every segment that
\* is QUEUED or PROCESSING eventually is COMPLETED or FAILED.
C11_EventuallyTerminal ==
    \A s \in Segments :
       (status[s] \in {"QUEUED", "PROCESSING"}) ~> (status[s] \in {"COMPLETED", "FAILED"})

Terminal(s) == status[s] \in {"COMPLETED", "FAILED"}

\* C12: an audio task is COMPLETED as soon as every one of its segments is
\* terminal (COMPLETED or FAILED) with at least one COMPLETED, partial
\* failures included, and is PROCESSING while any of them is not terminal.
C12_AudioCompleted ==
    \A a \in Audios :
       IF \A s \in SegmentsOf(a) : Terminal(s)
       THEN (\E s \in SegmentsOf(a) : status[s] = "COMPLETED")
               => audio_status[a] = "COMPLETED"
       ELSE audio_status[a] = "PROCESSING"

\* C13: once its segments exist, an audio task is FAILED if and only if every
\* one of its segments is FAILED, in the state right after each segment
\* update.
C13_AudioFailed ==
    \A a \in Audios :
       (audio_status[a] = "FAILED") <=> (\A s \in SegmentsOf(a) : status[s] = "FAILED")

\* the index-0 segment of audio a
FirstSegmentOf(a) == CHOOSE s \in SegmentsOf(a) : index(s) = 0
\* a result of segment s has been stored by a dispatch
Dispatched(s) == s \in DOMAIN completed_results

\* C14: get_first(audio_id) is None as long as the index-0 segment of that
\* audio has not been dispatched, and from then on it is the result of
\* exactly that segment, never of another audio or of a non-first segment.
C14_GetFirst ==
    \A a \in Audios :
       LET r == get_first_segment_result(a) IN
       IF Dispatched(FirstSegmentOf(a))
       THEN /\ r # None
            /\ r.segment_id = FirstSegmentOf(a)
            /\ r.text = TextOf(FirstSegmentOf(a))
       ELSE r = None

\* one audio has its first result, another has a normal segment's result
\* only and no first result
C14_Witness ==
    \E a1, a2 \in Audios :
       /\ get_first_segment_result(a1) # None
       /\ get_first_segment_result(a1).segment_id = FirstSegmentOf(a1)
       /\ get_first_segment_result(a2) = None
       /\ \E s \in SegmentsOf(a2) : Dispatched(s)

\* C18: list_by_audio(audio_id) is, whatever the order in which the results
\* were dispatched, the list of the results of exactly those segments of the
\* audio that have a result so far (every terminated segment included), each
\* once, in ascending index order.
C18_ListByAudio ==
    \A a \in Audios : \A key_order \in DictOrders(DOMAIN completed_results) :
       LET l == get_audio_segments_results(key_order, a) IN
       /\ \A i \in 1 .. Len(l) : l[i] = completed_results[l[i].segment_id]
       /\ \A i, j \in 1 .. Len(l) :
             i < j => index(l[i].segment_id) < index(l[j].segment_id)
       /\ {l[i].segment_id : i \in 1 .. Len(l)} = {s \in SegmentsOf(a) : Dispatched(s)}
       /\ \A s \in SegmentsOf(a) :
             Terminal(s) => \E i \in 1 .. Len(l) : l[i].segment_id = s

\* one audio has all its results and the other only a normal segment's
C18_Witness ==
    \E a1, a2 \in Audios :
       /\ \A s \in SegmentsOf(a1) : Dispatched(s) /\ status[s] = "COMPLETED"
       /\ ~Dispatched(FirstSegmentOf(a2))
       /\ \E s \in SegmentsOf(a2) : Dispatched(s)
       /\ Len(get_audio_segments_results(
                 CHOOSE o \in DictOrders(DOMAIN completed_results) : TRUE, a1)) > 1

\* queue keeps its entries in place and at most gains one at its tail
GrowsAtTail(queue, queue_after) ==
    \/ queue_after = queue
    \/ /\ Len(queue_after) = Len(queue) + 1
       /\ SubSeq(queue_after, 1, Len(queue)) = queue

\* the entries that left queue are its oldest ones, they stand in tasks in the
\* order they had in the queue, and the entries left behind keep their order
LeavesInOrder(queue, queue_after, tasks) ==
    LET k == Len(queue) - Len(queue_after) IN
    /\ k >= 0
    /\ queue_after = SubSeq(queue, k + 1, Len(queue))
    /\ \E off \in 0 .. Len(tasks) :
          /\ off + k <= Len(tasks)
          /\ \A i \in 1 .. k : tasks[off + i] = queue[i]

\* C20: within one priority class segments leave the queue in admission
\* order: an admission puts the segment behind every entry of its queue, and
\* a batch takes from each queue its oldest entries in their order, so a
\* segment admitted before another of its class is in an earlier batch or
\* earlier in the same batch.
C20_FifoWithinClass ==
    [][/\ GrowsAtTail(first_segment_queue, first_segment_queue')
          \/ \E w \in Workers :
                /\ BatchFormed(w)
                /\ LeavesInOrder(first_segment_queue, first_segment_queue', batch'[w])
       /\ GrowsAtTail(normal_segment_queue, normal_segment_queue')
          \/ \E w \in Workers :
                /\ BatchFormed(w)
                /\ LeavesInOrder(normal_segment_queue, normal_segment_queue', batch'[w])
       /\ \A w \in Workers :
             BatchFormed(w) =>
                \A i, j \in 1 .. Len(batch'[w]) :
                   (i < j /\ is_first_segment(batch'[w][j])) => is_first_segment(batch'[w][i])
      ]_vars

\* a full batch holds two different segments of one class while another
\* segment still waits in a queue
C20_Witness ==
    \E w \in Workers :
       /\ InFlight(w)
       /\ Len(batch[w]) = batch_size
       /\ batch[w][1] # batch[w][2]
       /\ is_first_segment(batch[w][1]) = is_first_segment(batch[w][2])
       /\ _get_total_queue_size > 0

\* how often the call under way has done op for segment s with observer j
CallCount(op, j, s) ==
    Cardinality({p \in 1 .. Len(calls) :
                    calls[p] = [op |-> op, observer |-> j, segment_id |-> s]})

DispatchedSegments == {dispatch.results[i].segment_id : i \in 1 .. Len(dispatch.results)}

\* C15: within one dispatch call every first-segment result is stored and
\* handed to its observers before any normal-segment result of the batch is
\* stored or handed to an observer, also with asynchronous callbacks that
\* suspend.
C15_FirstsBeforeNormals ==
    \A p, q \in 1 .. Len(calls) :
       (p < q /\ ~is_first_segment(calls[p].segment_id))
          => ~is_first_segment(calls[q].segment_id)

\* C16: for each dispatched batch the on_first observers are invoked once
\* for every first-segment result and the on_any observers once for every
\* result of the batch, first-segment results included.
C16_ObserversInvoked ==
    (dispatch.returned /\ total_batches_completed > 0) =>
       \A s \in DispatchedSegments :
          /\ \A j \in 1 .. Len(all_segment_callbacks) : CallCount("on_any", j, s) = 1
          /\ is_first_segment(s) =>
                \A j \in 1 .. Len(first_segment_callbacks) : CallCount("on_first", j, s) = 1

\* the observer list the dispatcher uses for the results of segment s
CallbacksFor(s) ==
    IF is_first_segment(s) THEN [op |-> "on_first", list |-> first_segment_callbacks]
                           ELSE [op |-> "on_any", list |-> all_segment_callbacks]

\* C17: whatever observers raise, a dispatch call returns (the worker goes
\* on), and when it has returned every observer registered for a result was
\* invoked for it once, and every result of the batch is stored and written
\* to the task store.
C17_ObserverRaises ==
    /\ [](dispatch.returned =>
             \A i \in 1 .. Len(dispatch.results) :
                LET r == dispatch.results[i]
                    s == r.segment_id
                IN  /\ s \in DOMAIN completed_results /\ completed_results[s] = r
                    /\ is_first_segment(s) => get_first_segment_result(parent_id(s)) = r
                    /\ status[s] = "COMPLETED"
                    /\ \A j \in 1 .. Len(CallbacksFor(s).list) :
                          CallCount(CallbacksFor(s).op, j, s) = 1)
    /\ (~dispatch.returned) ~> dispatch.returned

\* a second batch, of two results, was dispatched with a raising observer at
\* the head of the list used for its first result, and the observer behind
\* it was invoked and both results are stored and written to the task store
C17_Witness ==
    /\ dispatch.returned /\ total_batches_completed > 1
    /\ Len(dispatch.results) > 1
    /\ LET s1 == dispatch.results[1].segment_id
           s2 == dispatch.results[2].segment_id
           cb == CallbacksFor(s1)
       IN  /\ Len(cb.list) = MaxObservers
           /\ cb.list[1] = "raises"
           /\ CallCount(cb.op, 1, s1) = 1
           /\ CallCount(cb.op, MaxObservers, s1) = 1
           /\ s2 \in DOMAIN completed_results
           /\ status[s1] = "COMPLETED" /\ status[s2] = "COMPLETED"

\* segment s is in the batch worker w holds
Holds(w, s) == InFlight(w) /\ \E i \in 1 .. Len(batch[w]) : batch[w][i] = s

\* C19: for first segments a and b, b admitted behind a while the high queue
\* stayed non-empty, the result of a is dispatched before the result of b,
\* whatever the interleaving of the workers' model calls: when a worker
\* dispatches b from a batch without a, a has been dispatched already; a is
\* not in the batch of another worker whose model call has not returned.
C19_FirstSegmentOrder ==
    [][\A p \in ahead : \A w, w2 \in Workers :
          LET a == p[1]
              b == p[2]
          IN  (/\ Holds(w, b) /\ ~Holds(w, a) /\ pc'[w] # "process"
               /\ ~Dispatched(b) /\ b \in DOMAIN completed_results'
               /\ w2 # w /\ Holds(w2, a))
              => Dispatched(a)
      ]_vars

\* C21: a submission while the supervisor is not running, before the first
\* start or after a stop, returns NOT_RUNNING and leaves both queues and
\* every status unchanged.
C21_NotRunning ==
    [][\A s \in Segments :
          (~processor_is_running /\ BatchProcessor_add_segment_task(s)) =>
             /\ admit_ret' = "NOT_RUNNING"
             /\ first_segment_queue' = first_segment_queue
             /\ normal_segment_queue' = normal_segment_queue
             /\ status' = status
      ]_vars

\* a submission was refused after a stop that left segments in the queues
C21_Witness ==
    /\ ~processor_is_running
    /\ admit_ret = "NOT_RUNNING"
    /\ _get_total_queue_size > 0
    /\ \A w \in Workers : pc[w] = "none"

\* the segments in one of the two queues
Queued ==
    {first_segment_queue[i] : i \in 1 .. Len(first_segment_queue)}
    \cup {normal_segment_queue[i] : i \in 1 .. Len(normal_segment_queue)}

\* C22: from stop() until the next start() no batch is formed: both queues
\* stay as they are and every segment in them that is QUEUED (and not also
\* in a batch handed out before the stop) stays QUEUED, also with workers
\* that were suspended inside get_next_batch when stop was called.
C22_NoBatchAfterStop ==
    [][(~processor_is_running /\ ~processor_is_running') =>
          /\ first_segment_queue' = first_segment_queue
          /\ normal_segment_queue' = normal_segment_queue
          /\ batch_counter' = batch_counter
          /\ \A s \in Queued :
                (status[s] = "QUEUED" /\ \A w \in Workers : ~Holds(w, s))
                   => status'[s] = "QUEUED"
      ]_vars

\* stop() has returned: the supervisor is stopped and its gather over the
\* worker loops is done
StopReturned == ~processor_is_running /\ \A w \in Workers : pc[w] = "none"

\* C23: a batch that a worker holds while the supervisor is stopped (it was
\* in flight when stop() was called) is still run through the model and
\* dispatched before that worker exits and stop() returns: the step that
\* ends it leaves every segment of the batch in a terminal status, with its
\* result stored if it is COMPLETED.
C23_InFlightCompletes ==
    [][\A w \in Workers :
          (~processor_is_running /\ InFlight(w) /\ pc'[w] # "process") =>
             /\ ~StopReturned'
             /\ \A s \in InBatch(batch[w]) :
                   /\ status'[s] \in {"COMPLETED", "FAILED"}
                   /\ status'[s] = "COMPLETED" => s \in DOMAIN completed_results'
      ]_vars

\* everything but the record of how the last start() or stop() went
all_but_supervisor_ret ==
    << first_segment_queue, normal_segment_queue, status, scheduler_is_running,
       processor_is_running, batch_counter, total_batches_created,
       total_batches_completed, pc, batch, completed_results,
       first_segment_results, admit_calls, admit_ret, audio_status,
       observer_vars, ahead, start_time, clock, queue_lock, progress_percent >>

\* C25: start() called while running is a no-op (no worker is created,
\* queues, counters, flags and the start time stay as they are), and stop()
\* called while stopped is a no-op.
C25_StartStopNoOp ==
    [][/\ (processor_is_running /\ SupervisorStart) =>
             (supervisor_ret' = "ALREADY_RUNNING" /\ UNCHANGED all_but_supervisor_ret)
       /\ (~processor_is_running /\ SupervisorStop) =>
             (supervisor_ret' = "ALREADY_STOPPED" /\ UNCHANGED all_but_supervisor_ret)
      ]_vars

\* start() was called again while a worker held a batch, another waited and
\* a segment was queued: its workers and start time are those of the start
\* before
C25_Witness ==
    /\ supervisor_ret = "ALREADY_RUNNING"
    /\ processor_is_running
    /\ start_time = 1
    /\ Cardinality(Alive) = max_concurrent_batches
    /\ \E w \in Alive : InFlight(w)
    /\ _get_total_queue_size > 0

\* C30: at any time at most max_concurrent_batches worker loops are alive
\* and at most that many batches are in flight, after any sequence of
\* start() and stop() calls, a start() issued while a stop() still waits for
\* its workers included.
C30_WorkerCount ==
    /\ Cardinality(Alive) <= max_concurrent_batches
    /\ Cardinality({w \in DOMAIN pc : InFlight(w)}) <= max_concurrent_batches

\* start(); stop(); start(): the calls that change something, the stop only
\* after the first start
RestartStart ==
    /\ ~processor_is_running
    /\ SupervisorStart

RestartStop ==
    /\ processor_is_running
    /\ start_time = 1
    /\ SupervisorStop

RestartNext ==
    \/ \E s \in Segments : SupervisorAdmit(s)
    \/ \E w \in Tasks : LoopEnter(w)
    \/ \E w \in Tasks : WaitReturn(w)
    \/ \E w \in Tasks : ProcessBatch(w)
    \/ RestartStart
    \/ RestartStop

RestartSpec ==
    /\ SupervisorInit
    /\ [][RestartNext]_vars
    /\ \A w \in Tasks :
          WF_vars(LoopEnter(w)) /\ WF_vars(WaitReturn(w)) /\ WF_vars(ProcessBatch(w))

\* ------------------------------------------------------ the submit route
\* the segments of an audio in the task store, by index
get_segments_by_audio(a) ==
    SelectSeq([i \in 1 .. SegsPerAudio |-> a * SegsPerAudio + (i - 1)],
              LAMBDA s : s \in SegmentsOf(a))

\* BatchProcessor.add_segment_task for segment s on the queues and statuses
\* q, counting the accepted submissions as the route's loop does
AdmitInto(q, s) ==
    IF ~processor_is_running THEN q
    ELSE IF Len(q.first) + Len(q.normal) >= max_queue_size THEN q
    ELSE [first |-> IF is_first_segment(s) THEN Append(q.first, s) ELSE q.first,
          normal |-> IF is_first_segment(s) THEN q.normal ELSE Append(q.normal, s),
          status |-> [q.status EXCEPT ![s] = "QUEUED"],
          submitted_count |-> q.submitted_count + 1]

\* the loop of the route over the segments that are ready to be submitted
RECURSIVE SubmitLoop(_, _)
SubmitLoop(q, segments) ==
    IF segments = << >> THEN q
    ELSE SubmitLoop(IF q.status[Head(segments)] = "CREATED"
                    THEN AdmitInto(q, Head(segments)) ELSE q,
                    Tail(segments))

\* the route without its test of the audio's status and of submitted_count
submit_audio_for_streaming_unchecked(a) ==
    /\ queue_lock = "free"
    /\ LET q == SubmitLoop([first |-> first_segment_queue,
                            normal |-> normal_segment_queue,
                            status |-> status,
                            submitted_count |-> 0],
                           get_segments_by_audio(a))
       IN  /\ first_segment_queue' = q.first
           /\ normal_segment_queue' = q.normal
           /\ status' = q.status
           /\ audio_status' =
                 [audio_status EXCEPT ![a] = "PROCESSING"]
    /\ UNCHANGED << scheduler_is_running, processor_is_running, batch_counter,
                    total_batches_created, total_batches_completed, pc, batch,
                    completed_results, first_segment_results, admit_calls,
                    admit_ret >>
    /\ UNCHANGED << observer_vars, ahead, supervisor_vars, clock, queue_lock, progress_percent >>

\* the route without its test of submitted_count
submit_audio_for_streaming_no_count(a) ==
    /\ audio_status[a] = "READY"
    /\ queue_lock = "free"
    /\ LET q == SubmitLoop([first |-> first_segment_queue,
                            normal |-> normal_segment_queue,
                            status |-> status,
                            submitted_count |-> 0],
                           get_segments_by_audio(a))
       IN  /\ first_segment_queue' = q.first
           /\ normal_segment_queue' = q.normal
           /\ status' = q.status
           /\ audio_status' =
                 [audio_status EXCEPT ![a] = "PROCESSING"]
    /\ UNCHANGED << scheduler_is_running, processor_is_running, batch_counter,
                    total_batches_created, total_batches_completed, pc, batch,
                    completed_results, first_segment_results, admit_calls,
                    admit_ret >>
    /\ UNCHANGED << observer_vars, ahead, supervisor_vars, clock, queue_lock, progress_percent >>

\* submit_audio_for_streaming for audio a, from its status test to its
\* update of the audio: no await in it suspends, the queue lock being free
submit_audio_for_streaming(a) ==
    /\ audio_status[a] = "READY"
    /\ queue_lock = "free"
    /\ LET q == SubmitLoop([first |-> first_segment_queue,
                            normal |-> normal_segment_queue,
                            status |-> status,
                            submitted_count |-> 0],
                           get_segments_by_audio(a))
       IN  /\ first_segment_queue' = q.first
           /\ normal_segment_queue' = q.normal
           /\ status' = q.status
           /\ audio_status' =
                 IF q.submitted_count = 0
                 THEN audio_status
                 ELSE [audio_status EXCEPT ![a] = "PROCESSING"]
    /\ UNCHANGED << scheduler_is_running, processor_is_running, batch_counter,
                    total_batches_created, total_batches_completed, pc, batch,
                    completed_results, first_segment_results, admit_calls,
                    admit_ret >>
    /\ UNCHANGED << observer_vars, ahead, supervisor_vars, clock, queue_lock, progress_percent >>

SubmitNext ==
    \/ \E a \in Audios : submit_audio_for_streaming(a)
    \/ \E w \in Workers : LoopEnter(w)
    \/ \E w \in Workers : WaitReturn(w)
    \/ \E w \in Workers : ProcessBatch(w)
    \/ Start
    \/ Stop

SubmitSpec == Init /\ [][SubmitNext]_vars

\* ------------------------------------------------- eviction of old results
\* hasattr(obj, name) for an object given as the record of its fields
hasattr(obj, name) == name \in DOMAIN obj

\* the keys cleanup_old_results collects as expired in the dict d
Expired(d, current_time, max_age_seconds) ==
    {k \in DOMAIN d :
        /\ hasattr(d[k], "created_at")
        /\ current_time - d[k].created_at > max_age_seconds}

\* del d[k] for every k of keys
Delete(d, keys) == [k \in (DOMAIN d) \ keys |-> d[k]]

\* ResultDispatcher.cleanup_old_results
cleanup_old_results(max_age_seconds) ==
    /\ completed_results' =
          Delete(completed_results,
                 Expired(completed_results, clock.now, max_age_seconds))
    /\ first_segment_results' =
          Delete(first_segment_results,
                 Expired(first_segment_results, clock.now, max_age_seconds))

\* what storing and evicting results leaves alone
cleanup_frame ==
    UNCHANGED << first_segment_queue, normal_segment_queue, status,
                 scheduler_is_running, processor_is_running, batch_counter,
                 total_batches_created, total_batches_completed, pc, batch,
                 admit_calls, admit_ret, audio_status, observer_vars, ahead,
                 supervisor_vars, queue_lock, progress_percent >>

\* the result of segment s is dispatched now
CleanupDispatch(s) ==
    LET r == [segment_results |-> << [segment_id |-> s, text |-> TextOf(s)] >>] IN
    /\ first_segment_results' = StoreFirst(first_segment_results, get_first_segments(r))
    /\ completed_results' =
          StoreCompleted(StoreCompleted(completed_results, get_first_segments(r)),
                         get_normal_segments(r))
    /\ clock' = [clock EXCEPT !.finished = DictSet(@, s, clock.now)]
    /\ cleanup_frame

\* time passes
Tick ==
    /\ clock.now < MaxTime
    /\ clock' = [clock EXCEPT !.now = @ + 1]
    /\ UNCHANGED << completed_results, first_segment_results >>
    /\ cleanup_frame

\* the cleanup route calls cleanup_old_results with a positive threshold
CleanupCall(max_age_seconds) ==
    /\ cleanup_old_results(max_age_seconds)
    /\ clock' = [clock EXCEPT !.max_age_seconds = max_age_seconds]
    /\ cleanup_frame

CleanupNext ==
    \/ \E s \in Segments : CleanupDispatch(s)
    \/ Tick
    \/ \E max_age_seconds \in 1 .. MaxTime : CleanupCall(max_age_seconds)

CleanupSpec == Init /\ [][CleanupNext]_vars

\* start() was called again after a stop()
Restarted == start_time >= 2

\* C24: after start(); stop(); start() the segments left in the queues at
\* the stop eventually all leave the queues in batches (as long as the
\* supervisor is not stopped again) and the batches in flight are processed
\* to their end, and a submission below capacity is accepted again.
C24_RestartResumes ==
    /\ (Restarted /\ processor_is_running /\ Queued # {})
          ~> (~processor_is_running \/ Queued = {})
    /\ (Restarted /\ \E w \in Tasks : InFlight(w))
          ~> (\A w \in Tasks : ~InFlight(w))
    /\ [][\A s \in Segments :
             (/\ Restarted /\ processor_is_running
              /\ _get_total_queue_size < max_queue_size
              /\ BatchProcessor_add_segment_task(s))
                => (admit_ret' = "ACCEPTED" /\ s \in Queued')
         ]_vars

\* a segment accepted before the stop, with a submission refused during the
\* stop, is in a batch of a worker of the second start: every worker of the
\* first start had exited
C24_Witness ==
    /\ start_time = 2
    /\ processor_is_running
    /\ admit_ret = "NOT_RUNNING"
    /\ Cardinality(Alive) = max_concurrent_batches
    /\ \E w \in Alive : \E s \in Segments : Holds(w, s)

\* C26: with the scheduler running, the workers looping and exactly one
\* segment queued, a batch of size 1 holding that segment is eventually
\* handed to a worker unless a further submission is queued first: the wait
\* in get_next_batch ends at its timeout, not when batch_size segments are
\* queued.
C26_TimeoutBatchOfOne ==
    \A s \in Segments :
       (/\ scheduler_is_running
        /\ first_segment_queue \o normal_segment_queue = << s >>)
          ~> \/ \E w \in Workers : InFlight(w) /\ batch[w] = << s >>
             \/ _get_total_queue_size > 1

\* the last batch, formed after the last submission, holds one segment and
\* every batch before it has ended
C26_Witness ==
    /\ admit_calls = MaxBatches
    /\ total_batches_created = MaxBatches
    /\ total_batches_completed = MaxBatches - 1
    /\ _is_queues_empty
    /\ \E w \in Workers : InFlight(w) /\ Len(batch[w]) = 1

\* C27: dispatching a batch result a second time leaves completed_results
\* and first_segment_results exactly as the first dispatch left them: each
\* segment_id and each parent audio id is overwritten with the value it
\* already holds, and no entry is added.
C27_DispatchIdempotent ==
    [][\A w \in Workers :
          (InFlight(w) /\ pc'[w] = "loop") =>
          \A r \in BatchResults(batch[w]) :
          _process_single_batch(w, r) =>
             /\ StoreFirst(first_segment_results', get_first_segments(r))
                   = first_segment_results'
             /\ StoreCompleted(StoreCompleted(completed_results',
                                             get_first_segments(r)),
                               get_normal_segments(r))
                   = completed_results'
      ]_vars

\* two batches were dispatched, the results of a first segment and of a
\* normal segment are stored
C27_Witness ==
    /\ total_batches_completed = 2
    /\ \E s \in DOMAIN completed_results :
          /\ is_first_segment(s)
          /\ parent_id(s) \in DOMAIN first_segment_results
    /\ \E s \in DOMAIN completed_results : ~is_first_segment(s)

\* C28: cleanup_old_results(max_age_seconds) removes from completed_results
\* and from first_segment_results every entry whose result was stored more
\* than max_age_seconds ago, and keeps every entry that is younger.
C28_EvictOlder ==
    [][\A a \in 1 .. MaxTime :
          CleanupCall(a) =>
             /\ \A s \in DOMAIN completed_results :
                   s \in DOMAIN completed_results'
                      <=> ~(clock.now - clock.finished[s] > a)
             /\ \A p \in DOMAIN first_segment_results :
                   p \in DOMAIN first_segment_results'
                      <=> ~(clock.now
                              - clock.finished[first_segment_results[p].segment_id] > a)
      ]_vars

\* a batch ended and left a segment PROCESSING: its model call failed
FailedSeen ==
    \E s \in Segments :
       status[s] = "PROCESSING" /\ \A w \in Workers : ~Holds(w, s)

\* C29: a batch whose model call fails still counts as completed and does
\* not stop the pipeline: total_batches_completed is incremented for it, its
\* worker is back at get_next_batch, and the segments queued after such a
\* failure are still formed into batches that are processed to their end.
C29_FailureCounted ==
    /\ [][\A w \in Workers :
             InFlight(w) =>
             \A out \in ModelOutcomes(batch[w]) :
                (/\ process_batch(batch[w], out).status = "FAILED"
                 /\ ProcessedWith(w, out))
                   => /\ total_batches_completed' = total_batches_completed + 1
                      /\ pc'[w] = "loop"
         ]_vars
    /\ (FailedSeen /\ Queued # {})
          ~> (Queued = {} /\ \A w \in Workers : ~InFlight(w))

\* the only batch formed so far has failed and is counted, both workers are
\* back in get_next_batch and a segment is queued
C29_Witness ==
    /\ FailedSeen
    /\ total_batches_created = 1
    /\ total_batches_completed = 1
    /\ Queued # {}
    /\ \A w \in Workers : pc[w] \in {"loop", "wait"}

\* C31: when every segment is submitted at most once, the batches that
\* different workers hold at the same time are pairwise disjoint and no batch
\* holds a segment twice: _create_batch pops what it takes.
C31_DisjointBatches ==
    /\ \A w \in Workers : InFlight(w) => NoDuplicates(batch[w])
    /\ \A w1, w2 \in Workers :
          (w1 # w2 /\ InFlight(w1) /\ InFlight(w2))
             => InBatch(batch[w1]) \cap InBatch(batch[w2]) = {}

\* two workers hold a batch each while a segment is still queued
C31_Witness ==
    /\ \A w \in Workers : InFlight(w)
    /\ _get_total_queue_size > 0

\* the segments add_segment_task has accepted
Accepted == {s \in Segments : status[s] # "CREATED"}

\* the segments whose batch has ended: with a result or an error, or left
\* PROCESSING by a batch that no worker holds any more
Finished ==
    {s \in Segments :
        \/ status[s] \in {"COMPLETED", "FAILED"}
        \/ status[s] = "PROCESSING" /\ \A w \in Workers : ~Holds(w, s)}

\* get_statistics of the scheduler: the queue sizes, the batch counters and
\* avg_batch_size, which is the configured batch_size once a batch exists
\* (the wait times behind avg_wait_time are not part of the state)
get_statistics ==
    [first_segment_queue_size |-> Len(first_segment_queue),
     normal_segment_queue_size |-> Len(normal_segment_queue),
     total_queued |-> _get_total_queue_size,
     batches_created |-> total_batches_created,
     batches_completed |-> total_batches_completed,
     avg_batch_size |-> IF total_batches_created > 0 THEN batch_size ELSE 0]

\* number of segments in the in-flight batches of workers 1 .. w
RECURSIVE InFlightSize(_)
InFlightSize(w) ==
    IF w = 0 THEN 0
    ELSE InFlightSize(w - 1) + (IF InFlight(w) THEN Len(batch[w]) ELSE 0)

\* C32: no segment is lost between admission and execution: every accepted
\* segment is in exactly one of a queue, a batch held by a worker and the
\* set of segments whose batch has ended, and the number of accepted
\* segments is queued + in flight + finished.
C32_NoSegmentLost ==
    /\ \A s \in Accepted :
          Occurrences(first_segment_queue, s)
            + Occurrences(normal_segment_queue, s)
            + InFlightOccurrences(max_concurrent_batches, s)
            + (IF s \in Finished THEN 1 ELSE 0) = 1
    /\ Cardinality(Accepted)
          = _get_total_queue_size + InFlightSize(max_concurrent_batches)
              + Cardinality(Finished)

\* C33: get_next_batch returns None only when the scheduler is not running,
\* and a batch it returns is not empty: while the scheduler runs a worker
\* stays in its wait or gets at least one segment, also when another worker
\* has emptied the queues in the meantime.
C33_SentinelOnlyWhenStopped ==
    [][\A w \in Workers :
          /\ (pc[w] = "wait" /\ pc'[w] = "loop") => ~scheduler_is_running
          /\ (pc[w] \in {"loop", "wait"} /\ pc'[w] = "process")
                => (batch'[w] # << >> /\ Len(batch'[w]) <= batch_size)
      ]_vars

\* the scheduler runs, one worker holds the batch that emptied the queues,
\* the other is still inside get_next_batch
C33_Witness ==
    /\ scheduler_is_running
    /\ _is_queues_empty
    /\ \E w1, w2 \in Workers :
          /\ InFlight(w1)
          /\ pc[w2] = "wait"
          /\ total_batches_created = 1

\* C34: the counter component of a batch id is batch_counter at the moment
\* the batch is formed; every formation leaves batch_counter one higher and
\* no step lowers it, stop() and start() included, so the ids are unique
\* and strictly increasing in the order of formation, across workers and
\* across stop/start cycles.
C34_BatchIdsIncrease ==
    [][/\ batch_counter' >= batch_counter
       /\ \A w \in Tasks : BatchFormed(w) => batch_counter' = batch_counter + 1
      ]_vars

\* after start(); stop(); start() a worker of the second start holds the
\* second batch
C34_Witness ==
    /\ start_time = 2
    /\ processor_is_running
    /\ Cardinality(Alive) = max_concurrent_batches
    /\ batch_counter = 2
    /\ total_batches_completed = 1
    /\ \E w \in Alive : InFlight(w)

\* C35: no lock is held across a model call: while a worker is inside the
\* model call for its batch, queue_lock is free, so a submission gets its
\* answer and another worker that finds segments queued forms its batch
\* without waiting for that call to end.
C35_NoLockAcrossModelCall ==
    (\E w \in Workers : InFlight(w)) =>
       /\ queue_lock = "free"
       /\ admit_calls < MaxAdmits
             => \A s \in Segments : ENABLED ProcessorAdmit(s)
       /\ \A v \in Workers :
             (pc[v] = "wait" /\ ~_is_queues_empty /\ batch_counter < MaxBatches)
                => ENABLED WaitReturn(v)

\* one worker is in the model call, a segment submitted since is queued and
\* the other worker is about to leave its wait
C35_Witness ==
    /\ processor_is_running
    /\ admit_ret = "ACCEPTED"
    /\ ~_is_queues_empty
    /\ \E w, v \in Workers : InFlight(w) /\ pc[v] = "wait"

C37_CompletedStays ==
    [][\A a \in Audios :
          audio_status[a] = "COMPLETED" => audio_status'[a] = "COMPLETED"
      ]_vars

\* an audio was submitted, processed and rolled up to COMPLETED while the
\* other audio is still PROCESSING
C37_Witness ==
    \E a, b \in Audios :
       /\ audio_status[a] = "COMPLETED"
       /\ audio_status[b] = "PROCESSING"
       /\ \A s \in SegmentsOf(a) : status[s] = "COMPLETED"

\* C38: every audio in status PROCESSING has a segment that is QUEUED,
\* PROCESSING, COMPLETED or FAILED: the submit route moves an audio to
\* PROCESSING only when add_segment_task accepted one of its segments.
C38_ProcessingHasAccepted ==
    \A a \in Audios :
       audio_status[a] = "PROCESSING"
          => \E s \in SegmentsOf(a) :
                status[s] \in {"QUEUED", "PROCESSING", "COMPLETED", "FAILED"}

\* an audio is PROCESSING with one segment accepted and the other refused
\* at capacity
C38_Witness ==
    \E a \in Audios :
       /\ audio_status[a] = "PROCESSING"
       /\ \E s \in SegmentsOf(a) : status[s] = "CREATED"
       /\ \E s \in SegmentsOf(a) : status[s] # "CREATED"

\* ------------------------------------------------ progress of an audio
\* C39: after every dispatch the progress_percent of an audio is
\* 100 * (its COMPLETED segments) / (its segments)
C39_ProgressIsRatio ==
    completed_results # EmptyDict =>
        \A a \in Audios :
            progress_percent[a] * Cardinality(SegmentsOf(a)) =
                100 * Cardinality({s \in SegmentsOf(a) : status[s] = "COMPLETED"})

\* ------------------------------------------------ the scheduler's statistics
\* C40: avg_batch_size is the measured average, (segments placed in emitted
\* batches) / (emitted batches).  Stated where the state holds every emitted
\* batch: as many workers hold a batch as batches were ever created.
C40_AvgBatchSizeMeasured ==
    (/\ total_batches_created > 0
     /\ Cardinality({w \in Workers : InFlight(w)}) = total_batches_created)
    => get_statistics.avg_batch_size * total_batches_created
           = InFlightSize(max_concurrent_batches)
====
